---- MODULE Spec2Model ----
(***************************************************************************)
(* Model of src/web/api/devices.py: GeotinyDevice (connection state, three *)
(* deque channel buffers, per-device lock) and DeviceManager (the          *)
(* acquisition thread, start/stop, consumer queries).                      *)
(*                                                                         *)
(* Every acquisition thread is a process with a program counter pc[t]; one *)
(* action is one statement (or one blocking call) of the Python code, so   *)
(* that the interleavings of the acquisition threads, the controller that  *)
(* calls start_acquisition/stop_acquisition and the consumers are visible. *)
(*                                                                         *)
(* The pure functions of src/app.py (_latest_mseed_path, _load_last_window,*)
(* _fft_mag) are run step by step on the variable app, from inputs that    *)
(* the initial state draws.                                                *)
(***************************************************************************)
EXTENDS Integers, Sequences, FiniteSets, TLC

(* ------------------------------ bounds --------------------------------- *)
\* number of threads start_acquisition creates in one run
MaxThreads == 2
\* deque maxlen (the code uses 3000)
Capacity == 2
\* resolution of the logical clock behind datetime.utcnow()
MaxClock == 1

(* --------------------------- program constants ------------------------- *)
\* devices.py:224  retry_count[device_id] >= 10
RetryThreshold == 10
\* devices.py:104-105  recv(12), len(data) == 12
RecordLen == 12

\* device ids a configuration can hold (device_config lists three devices);
\* every specification fixes its device table, the keys of self.devices, in its
\* initial state, and the loop polls the devices of that table in order
Devices == 1..2
\* complete 12-byte records a device delivers in one run: enough to wrap the deque
MaxAppends == Capacity + 2
Threads == 1..MaxThreads
Channels == {"X", "Y", "Z"}
None == -1
NoThread == 0

\* the records a device sends: the three floats, distinct per channel and record
Frames == { <<1, 11, 21>>, <<2, 12, 22>> }

\* the 12 bytes of a record: three 4-byte words, a word written as 4 equal tags
Bytes(f) == [i \in 1..RecordLen |-> f[((i - 1) \div 4) + 1]]

\* lengths of an incomplete recv: peer closed (0 bytes), 7 bytes delivered
PartialLens == {0, 7}

\* np.frombuffer(data, dtype=np.float32): words at byte offsets 0, 4, 8
Decode(data) == <<data[1], data[5], data[9]>>

\* deque(maxlen=n).append(v): append at the tail, evict the head when full
DequeAppendNoEvict(q, v, n) == Append(q, v)
DequeAppendDropNew(q, v, n) == IF Len(q) < n THEN Append(q, v) ELSE q
DequeAppend(q, v, n) == IF Len(q) < n THEN Append(q, v) ELSE Append(Tail(q), v)

\* outcomes of socket.connect(): success or the exception it raises
ConnectOutcomes == {"ok", "ConnectionRefusedError", "socket.timeout", "socket.gaierror"}

\* except socket.error (= OSError): every exception socket.connect raises
CatchesOnlyRefused(e) == e = "ConnectionRefusedError"
IsSocketError(e) == e \in {"ConnectionRefusedError", "socket.timeout", "socket.gaierror", "OSError"}

VARIABLES
  devices,                  \* manager.devices: the configured device ids, 1..n
  connected,                \* device.connected
  sock,                     \* device.socket: "none", "new", "open", "closed"
  last_connection_attempt,  \* device.last_connection_attempt (None or a time)
  last_data_received,       \* device.last_data_received (None or a time)
  channels,                 \* device.channels: X, Y, Z deques
  buffer_size,              \* device.buffer_size
  lock,                     \* device.lock: NoThread or the holding thread
  running,                  \* manager.running
  acquisition_thread,       \* manager.acquisition_thread (NoThread = None)
  pc,                       \* position of each acquisition thread
  cur,                      \* device the for loop of the thread is at
  retry_count,              \* retry_count of each _acquisition_loop
  from,                     \* caller of connect(): "loop" or "read"
  data,                     \* bytes returned by the thread's recv
  ret,                      \* value returned by the thread's last connect/read_data
  ctl,                      \* controller: "idle" or "joining" (inside stop_acquisition)
  stopped,                  \* stop_acquisition has returned, no start_acquisition since
  result,                   \* value returned by the last consumer query
  multi,                    \* the get_multi_channel_waveform call in progress
  now,                      \* datetime.utcnow()
  unreachable,              \* devices whose connect() always fails
  app,                      \* the call of a function of app.py: inputs, locals, result
  pushed,                   \* history: records appended to each device, in order
  gap,                      \* history: polls of d by loop t since its last connect() on d
  lastPoll                  \* history: outcome of the last poll of d by loop t

devVars == <<connected, sock, last_connection_attempt, last_data_received,
             channels, buffer_size, lock>>
mgrVars == <<devices, running, acquisition_thread>>
thrVars == <<pc, cur, retry_count, from, data, ret>>
ctlVars == <<ctl, stopped>>
histVars == <<pushed, gap, lastPoll>>
conVars == <<result, multi>>
envVars == <<unreachable, app>>
vars == <<devVars, mgrVars, thrVars, ctlVars, conVars, now, envVars, histVars>>

\* Python values returned by connect() (bool) and read_data() (tuple or None)
RetNone == [kind |-> "None", val |-> <<>>]
RetBool(b) == [kind |-> "bool", val |-> IF b THEN <<1>> ELSE <<0>>]
RetTuple(f) == [kind |-> "tuple", val |-> f]
\* `if data:` at devices.py:232
Truthy(r) == r.kind = "tuple" /\ Len(r.val) > 0

NoResult == [op |-> "none", dev |-> 0, ch |-> "-", val |-> <<>>]
\* no function of app.py is being called
NoApp == [f |-> "none"]
\* no get_multi_channel_waveform call is running
NoMulti == [at |-> "idle", dev |-> 0, n |-> 0, parts |-> <<>>]

\* Thread.is_alive(): started and not yet ended ("unborn": no such Thread yet)
Alive(t) == pc[t] \notin {"unborn", "dead", "crashed"}
Blocking(t) == pc[t] \in {"c_connect", "recv"}

(* ------------------------------ Init ----------------------------------- *)
\* GeotinyDevice.__init__ for every configured device
InitDevices ==
  /\ connected = [d \in Devices |-> FALSE]
  /\ sock = [d \in Devices |-> "none"]
  /\ last_connection_attempt = [d \in Devices |-> None]
  /\ last_data_received = [d \in Devices |-> None]
  /\ channels = [d \in Devices |-> [ch \in Channels |-> <<>>]]
  /\ buffer_size = [d \in Devices |-> Capacity]
  /\ lock = [d \in Devices |-> NoThread]

\* DeviceManager.__init__ and the device objects of initialize()
InitManagerVars(n) ==
  /\ devices = 1..n
  /\ InitDevices
  /\ running = FALSE
  /\ acquisition_thread = NoThread
  /\ pc = [t \in Threads |-> "unborn"]
  /\ cur = [t \in Threads |-> 1]
  /\ retry_count = [t \in Threads |-> [d \in Devices |-> 0]]
  /\ from = [t \in Threads |-> "loop"]
  /\ data = [t \in Threads |-> <<>>]
  /\ ret = [t \in Threads |-> RetNone]
  /\ ctl = "idle"
  /\ stopped = FALSE
  /\ result = NoResult
  /\ multi = NoMulti
  /\ now = 0
  /\ unreachable = {}
  /\ pushed = [d \in Devices |-> <<>>]
  /\ gap = [t \in Threads |-> [d \in Devices |-> 0]]
  /\ lastPoll = [t \in Threads |-> [d \in Devices |-> "none"]]

InitManager(n) == InitManagerVars(n) /\ app = NoApp

(* ----------------------- _acquisition_loop ----------------------------- *)
Min(a, b) == IF a < b THEN a ELSE b
GapCap == RetryThreshold + 2

\* end of the for-loop body: next device, or the sleep after a full pass
AdvanceRestart(t) ==
  /\ cur' = [cur EXCEPT ![t] = 1]
  /\ pc' = [pc EXCEPT ![t] = "sleep"]
Advance(t) ==
  IF cur[t] < Cardinality(devices)
    THEN /\ cur' = [cur EXCEPT ![t] = cur[t] + 1]
         /\ pc' = [pc EXCEPT ![t] = "visit"]
    ELSE /\ cur' = [cur EXCEPT ![t] = 1]
         /\ pc' = [pc EXCEPT ![t] = "sleep"]

\* devices.py:220  while self.running
WhileTrue(t) ==
  /\ pc[t] = "while"
  /\ pc' = [pc EXCEPT ![t] = "visit"]
  /\ cur' = [cur EXCEPT ![t] = 1]
  /\ UNCHANGED <<devVars, mgrVars, retry_count, from, data, ret, ctlVars,
                 conVars, now, envVars, histVars>>
While(t) ==
  /\ pc[t] = "while"
  /\ IF running
       THEN /\ pc' = [pc EXCEPT ![t] = "visit"]
            /\ cur' = [cur EXCEPT ![t] = 1]
       ELSE /\ pc' = [pc EXCEPT ![t] = "dead"]
            /\ cur' = cur
  /\ UNCHANGED <<devVars, mgrVars, retry_count, from, data, ret, ctlVars,
                 conVars, now, envVars, histVars>>

\* devices.py:224  the backoff test of the disconnected branch
BackoffImmediate(n) == TRUE
BackoffElapsed(n) == n >= RetryThreshold

\* devices.py:222-231  one device of the pass: backoff branch or read branch
Visit(t) ==
  /\ pc[t] = "visit"
  /\ LET d == cur[t] IN
     /\ gap' = [gap EXCEPT ![t][d] = Min(gap[t][d] + 1, GapCap)]
     /\ IF ~connected[d]
          THEN IF BackoffElapsed(retry_count[t][d])
                 THEN /\ pc' = [pc EXCEPT ![t] = "c_sock"]
                      /\ from' = [from EXCEPT ![t] = "loop"]
                      /\ UNCHANGED <<cur, retry_count, lastPoll>>
                 ELSE /\ retry_count' = [retry_count EXCEPT ![t][d] = retry_count[t][d] + 1]
                      /\ lastPoll' = [lastPoll EXCEPT ![t][d] = "skip"]
                      /\ Advance(t)
                      /\ from' = from
          ELSE /\ pc' = [pc EXCEPT ![t] = "rd_check"]
               /\ UNCHANGED <<cur, retry_count, from, lastPoll>>
  /\ UNCHANGED <<devVars, mgrVars, data, ret, ctlVars, conVars, now, envVars, pushed>>

\* devices.py:237  time.sleep(0.033)
Sleep(t) ==
  /\ pc[t] = "sleep"
  /\ pc' = [pc EXCEPT ![t] = "while"]
  /\ UNCHANGED <<devVars, mgrVars, cur, retry_count, from, data, ret, ctlVars,
                 conVars, now, envVars, histVars>>

(* ------------------------ GeotinyDevice.connect ------------------------ *)
\* devices.py:68-69  self.socket = socket.socket(...); settimeout(5)
ConnectSocket(t) ==
  /\ pc[t] = "c_sock"
  /\ sock' = [sock EXCEPT ![cur[t]] = "new"]
  /\ pc' = [pc EXCEPT ![t] = "c_connect"]
  /\ UNCHANGED <<connected, last_connection_attempt, last_data_received, channels,
                 buffer_size, lock, mgrVars, cur, retry_count, from, data, ret,
                 ctlVars, conVars, now, envVars, histVars>>

\* devices.py:70-79  the blocking socket.connect and both ways out of the try
ConnectCall(t) ==
  /\ pc[t] = "c_connect"
  /\ LET d == cur[t] IN
     \E e \in ConnectOutcomes :
       /\ d \in unreachable => e # "ok"
       /\ IF e = "ok"
            THEN /\ connected' = [connected EXCEPT ![d] = TRUE]
                 /\ sock' = [sock EXCEPT ![d] = "open"]
                 /\ last_connection_attempt' = [last_connection_attempt EXCEPT ![d] = now]
                 /\ ret' = [ret EXCEPT ![t] = RetBool(TRUE)]
                 /\ pc' = [pc EXCEPT ![t] = "c_ret"]
            ELSE IF IsSocketError(e)
            THEN /\ connected' = [connected EXCEPT ![d] = FALSE]
                 /\ last_connection_attempt' = [last_connection_attempt EXCEPT ![d] = now]
                 /\ ret' = [ret EXCEPT ![t] = RetBool(FALSE)]
                 /\ pc' = [pc EXCEPT ![t] = "c_ret"]
                 /\ sock' = sock
            ELSE \* the exception leaves connect() and ends the thread
                 /\ pc' = [pc EXCEPT ![t] = "crashed"]
                 /\ UNCHANGED <<connected, sock, last_connection_attempt, ret>>
  /\ UNCHANGED <<last_data_received, channels, buffer_size, lock, mgrVars, cur,
                 retry_count, from, data, ctlVars, conVars, now, envVars, histVars>>

\* devices.py:226  retry_count[device_id] = 0 after device.connect()
RetryKept(n) == n
RetryReset(n) == 0

\* return of connect(): devices.py:225-226 (loop) or devices.py:99-100 (read_data)
ConnectReturn(t) ==
  /\ pc[t] = "c_ret"
  /\ LET d == cur[t]
         ok == ret[t] = RetBool(TRUE) IN
     /\ gap' = [gap EXCEPT ![t][d] = 0]
     /\ IF from[t] = "loop"
          THEN /\ retry_count' = [retry_count EXCEPT ![t][d] = RetryReset(retry_count[t][d])]
               /\ lastPoll' = [lastPoll EXCEPT ![t][d] =
                                 IF ok THEN "connect_ok" ELSE "connect_fail"]
               /\ Advance(t)
               /\ ret' = [ret EXCEPT ![t] = RetNone]
          ELSE IF ok
          THEN /\ pc' = [pc EXCEPT ![t] = "recv"]
               /\ ret' = [ret EXCEPT ![t] = RetNone]
               /\ UNCHANGED <<cur, retry_count, lastPoll>>
          ELSE /\ ret' = [ret EXCEPT ![t] = RetNone]
               /\ lastPoll' = [lastPoll EXCEPT ![t][d] = "read_noconn"]
               /\ pc' = [pc EXCEPT ![t] = "rd_ret"]
               /\ UNCHANGED <<cur, retry_count>>
  /\ from' = [from EXCEPT ![t] = "loop"]
  /\ UNCHANGED <<devVars, mgrVars, data, ctlVars, conVars, now,
                 envVars, pushed>>

(* ----------------------- GeotinyDevice.read_data ----------------------- *)
\* devices.py:98  if not self.connected
NotConnectedOrNot(c) == TRUE
NotConnected(c) == ~c

\* devices.py:98-100  if not self.connected: if not self.connect(): return None
ReadCheck(t) ==
  /\ pc[t] = "rd_check"
  /\ IF NotConnected(connected[cur[t]])
       THEN /\ pc' = [pc EXCEPT ![t] = "c_sock"]
            /\ from' = [from EXCEPT ![t] = "read"]
       ELSE /\ pc' = [pc EXCEPT ![t] = "recv"]
            /\ from' = from
  /\ UNCHANGED <<devVars, mgrVars, cur, retry_count, data, ret, ctlVars,
                 conVars, now, envVars, histVars>>

\* devices.py:104  data = self.socket.recv(12) returns the 12 bytes of a record of F
RecvFrom(t, F) ==
  /\ pc[t] = "recv"
  /\ sock[cur[t]] = "open"
  /\ Len(pushed[cur[t]]) < MaxAppends
  /\ \E f \in F : data' = [data EXCEPT ![t] = Bytes(f)]
  /\ pc' = [pc EXCEPT ![t] = "rd_decode"]
  /\ UNCHANGED <<devVars, mgrVars, cur, retry_count, from, ret, ctlVars,
                 conVars, now, envVars, histVars>>

RecvFull(t) == RecvFrom(t, Frames)
\* the same with a device that repeats one record
RecvSame(t) == RecvFrom(t, {<<1, 11, 21>>})

\* devices.py:104  recv returns fewer than 12 bytes
RecvPartial(t) ==
  /\ pc[t] = "recv"
  /\ sock[cur[t]] = "open"
  /\ \E f \in Frames, n \in PartialLens : data' = [data EXCEPT ![t] = SubSeq(Bytes(f), 1, n)]
  /\ pc' = [pc EXCEPT ![t] = "rd_decode"]
  /\ UNCHANGED <<devVars, mgrVars, cur, retry_count, from, ret, ctlVars,
                 conVars, now, envVars, histVars>>

\* devices.py:119-120  recv raises socket.timeout
RecvTimeout(t) ==
  /\ pc[t] = "recv"
  /\ sock[cur[t]] = "open"
  /\ pc' = [pc EXCEPT ![t] = "rd_disc"]
  /\ UNCHANGED <<devVars, mgrVars, cur, retry_count, from, data, ret, ctlVars,
                 conVars, now, envVars, histVars>>

\* devices.py:123-124  recv raises another exception (reset, closed or unconnected socket)
RecvError(t) ==
  /\ pc[t] = "recv"
  /\ pc' = [pc EXCEPT ![t] = "rd_disc"]
  /\ UNCHANGED <<devVars, mgrVars, cur, retry_count, from, data, ret, ctlVars,
                 conVars, now, envVars, histVars>>

\* devices.py:123-124  recv raises because self.socket is not a connected socket
\* (another acquisition thread has replaced or closed it)
RecvBadSocket(t) ==
  /\ sock[cur[t]] # "open"
  /\ RecvError(t)

\* devices.py:81-89  disconnect(): close the socket, connected = False
DisconnectKeep(c, d) == c
Disconnect(c, d) == [c EXCEPT ![d] = FALSE]

\* devices.py:121-122, 125-126  self.disconnect(); return None
ReadDisconnect(t) ==
  /\ pc[t] = "rd_disc"
  /\ LET d == cur[t] IN
     /\ sock' = [sock EXCEPT ![d] = IF sock[d] = "none" THEN "none" ELSE "closed"]
     /\ connected' = Disconnect(connected, d)
     /\ lastPoll' = [lastPoll EXCEPT ![t][d] = "read_fail"]
  /\ ret' = [ret EXCEPT ![t] = RetNone]
  /\ pc' = [pc EXCEPT ![t] = "rd_ret"]
  /\ UNCHANGED <<last_connection_attempt, last_data_received, channels, buffer_size,
                 lock, mgrVars, cur, retry_count, from, data, ctlVars, conVars, now,
                 envVars, pushed, gap>>

\* devices.py:105  the test of a complete record
LenAtLeastOne(b) == Len(b) >= 1
IsComplete(b) == Len(b) = RecordLen

\* devices.py:116-118  where read_data() goes on after an incomplete record:
\* the return None of the else branch, not the except clauses
AfterShortReadRaise == "rd_disc"
AfterShortRead == "rd_ret"

\* devices.py:105-107, 116-118  length test, decode, last_data_received
ReadDecode(t) ==
  /\ pc[t] = "rd_decode"
  /\ LET d == cur[t] IN
     IF IsComplete(data[t])
       THEN /\ last_data_received' = [last_data_received EXCEPT ![d] = now]
            /\ pc' = [pc EXCEPT ![t] = "rd_lock"]
            /\ UNCHANGED <<ret, lastPoll>>
       ELSE /\ ret' = [ret EXCEPT ![t] = RetNone]
            /\ lastPoll' = [lastPoll EXCEPT ![t][d] = "read_partial"]
            /\ pc' = [pc EXCEPT ![t] = AfterShortRead]
            /\ UNCHANGED last_data_received
  /\ UNCHANGED <<connected, sock, last_connection_attempt, channels, buffer_size,
                 lock, mgrVars, cur, retry_count, from, data, ctlVars, conVars, now,
                 envVars, pushed, gap>>

\* devices.py:110  entering the with block takes the lock for thread t
AcquireSkipped(l, d, t) == l
Acquire(l, d, t) == [l EXCEPT ![d] = t]

\* devices.py:110  with self.lock: (blocks until the lock is free)
ReadLock(t) ==
  /\ pc[t] = "rd_lock"
  /\ lock[cur[t]] = NoThread
  /\ lock' = Acquire(lock, cur[t], t)
  /\ pc' = [pc EXCEPT ![t] = "app_X"]
  /\ UNCHANGED <<connected, sock, last_connection_attempt, last_data_received,
                 channels, buffer_size, mgrVars, cur, retry_count, from, data, ret,
                 ctlVars, conVars, now, envVars, histVars>>

\* which float of the record goes to which channel
ChannelValueSwapped(ch, xyz) == IF ch = "X" THEN xyz[2] ELSE IF ch = "Y" THEN xyz[1] ELSE xyz[3]
ChannelValue(ch, xyz) == IF ch = "X" THEN xyz[1] ELSE IF ch = "Y" THEN xyz[2] ELSE xyz[3]

\* devices.py:111-113  self.channels[ch].append(float(v)) for X, Y, Z in turn
AppendCh(t, ch, nextpc) ==
  /\ pc[t] = "app_" \o ch
  /\ LET d == cur[t] IN
     channels' = [channels EXCEPT ![d][ch] =
                    DequeAppend(channels[d][ch], ChannelValue(ch, Decode(data[t])),
                                buffer_size[d])]
  /\ pc' = [pc EXCEPT ![t] = nextpc]
  /\ UNCHANGED <<connected, sock, last_connection_attempt, last_data_received,
                 buffer_size, lock, mgrVars, cur, retry_count, from, data, ret,
                 ctlVars, conVars, now, envVars, histVars>>

AppendX(t) == AppendCh(t, "X", "app_Y")
AppendY(t) == AppendCh(t, "Y", "app_Z")
AppendZ(t) == AppendCh(t, "Z", "rd_unlock")

\* devices.py:110-113  the end of the with block releases the lock
ReleaseForgotten(l, d) == l
Release(l, d) == [l EXCEPT ![d] = NoThread]

\* devices.py:113-115  leave the with block, return (x, y, z)
ReadUnlock(t) ==
  /\ pc[t] = "rd_unlock"
  /\ LET d == cur[t] IN
     /\ lock' = Release(lock, d)
     /\ pushed' = [pushed EXCEPT ![d] = Append(pushed[d], Decode(data[t]))]
     /\ lastPoll' = [lastPoll EXCEPT ![t][d] = "read_ok"]
  /\ ret' = [ret EXCEPT ![t] = RetTuple(Decode(data[t]))]
  /\ pc' = [pc EXCEPT ![t] = "rd_ret"]
  /\ UNCHANGED <<connected, sock, last_connection_attempt, last_data_received,
                 channels, buffer_size, mgrVars, cur, retry_count, from, data,
                 ctlVars, conVars, now, envVars, gap>>

\* devices.py:231-233  data = device.read_data(); if data: retry_count = 0
ReadReturn(t) ==
  /\ pc[t] = "rd_ret"
  /\ retry_count' = [retry_count EXCEPT ![t][cur[t]] =
                       IF Truthy(ret[t]) THEN 0 ELSE retry_count[t][cur[t]]]
  /\ Advance(t)
  /\ data' = [data EXCEPT ![t] = <<>>]
  /\ ret' = [ret EXCEPT ![t] = RetNone]
  /\ UNCHANGED <<devVars, mgrVars, from, ctlVars, conVars, now,
                 envVars, histVars>>

(* ------------------ start_acquisition / stop_acquisition --------------- *)
\* devices.py:195-207  no-op when running, else a new thread with a fresh retry table
StartAcquisition ==
  /\ ctl = "idle"
  /\ IF running
       THEN UNCHANGED <<running, acquisition_thread, pc, retry_count, gap, lastPoll, stopped>>
       ELSE \E t \in Threads :
              /\ pc[t] = "unborn"
              /\ running' = TRUE
              /\ acquisition_thread' = t
              /\ pc' = [pc EXCEPT ![t] = "while"]
              /\ retry_count' = [retry_count EXCEPT ![t] = [d \in Devices |-> 0]]
              /\ gap' = [gap EXCEPT ![t] = [d \in Devices |-> 0]]
              /\ lastPoll' = [lastPoll EXCEPT ![t] = [d \in Devices |-> "none"]]
              /\ stopped' = FALSE
  /\ UNCHANGED <<devVars, devices, cur, from, data, ret, ctl, conVars, now,
                 envVars, pushed>>

\* devices.py:211-212  self.running = False, then join if there is a thread
StopAcquisition ==
  /\ ctl = "idle"
  /\ running' = FALSE
  /\ IF acquisition_thread = NoThread
       THEN /\ stopped' = TRUE
            /\ ctl' = ctl
       ELSE /\ ctl' = "joining"
            /\ stopped' = stopped
  /\ UNCHANGED <<devVars, devices, acquisition_thread, thrVars, conVars, now, envVars, histVars>>

\* devices.py:213-214  join returns because the thread has ended
JoinDone ==
  /\ ctl = "joining"
  /\ ~Alive(acquisition_thread)
  /\ ctl' = "idle"
  /\ stopped' = TRUE
  /\ UNCHANGED <<devVars, mgrVars, thrVars, conVars, now, envVars, histVars>>

\* devices.py:213-214  join(timeout=5) gives up while the thread is alive: it is
\* inside a network call (connect and recv block for up to 5 s each, and a pass
\* over the configured devices makes one such call after the other)
JoinTimeout ==
  /\ ctl = "joining"
  /\ Alive(acquisition_thread)
  /\ Blocking(acquisition_thread)
  /\ ctl' = "idle"
  /\ stopped' = TRUE
  /\ UNCHANGED <<devVars, mgrVars, thrVars, conVars, now, envVars, histVars>>

(* ------------------------------ consumers ------------------------------ *)
\* devices.py:128-142  get_buffer: a copy of the deque, taken under the lock
GetBufferDrain(d, ch) ==
  /\ lock[d] = NoThread
  /\ result' = [op |-> "get_buffer", dev |-> d, ch |-> ch,
                val |-> IF ch \in Channels THEN channels[d][ch] ELSE <<>>]
  /\ channels' = [channels EXCEPT ![d] = [c \in Channels |-> <<>>]]
  /\ UNCHANGED <<connected, sock, last_connection_attempt, last_data_received,
                 buffer_size, lock, mgrVars, thrVars, ctlVars, multi, now,
                 envVars, histVars>>
GetBuffer(d, ch) ==
  /\ lock[d] = NoThread
  /\ result' = [op |-> "get_buffer", dev |-> d, ch |-> ch,
                val |-> IF ch \in Channels THEN channels[d][ch] ELSE <<>>]
  /\ UNCHANGED <<devVars, mgrVars, thrVars, ctlVars, multi, now, envVars, histVars>>

\* devices.py:144-153  get_status: connected, last_data, len(channels['Z']), no lock
GetStatus(d) ==
  /\ result' = [op |-> "get_status", dev |-> d, ch |-> "-",
                val |-> <<IF connected[d] THEN 1 ELSE 0, last_data_received[d],
                          Len(channels[d]["Z"])>>]
  /\ UNCHANGED <<devVars, mgrVars, thrVars, ctlVars, multi, now, envVars, histVars>>

\* datetime.utcnow() advances
Tick ==
  /\ now < MaxClock
  /\ now' = now + 1
  /\ UNCHANGED <<devVars, mgrVars, thrVars, ctlVars, conVars, envVars, histVars>>

(* --------------------------- specifications ---------------------------- *)
LoopStep(t) ==
  \/ While(t) \/ Visit(t) \/ Sleep(t)
  \/ ConnectSocket(t) \/ ConnectCall(t) \/ ConnectReturn(t)
  \/ ReadCheck(t) \/ RecvFull(t) \/ RecvPartial(t) \/ RecvTimeout(t) \/ RecvError(t)
  \/ ReadDisconnect(t) \/ ReadDecode(t) \/ ReadLock(t)
  \/ AppendX(t) \/ AppendY(t) \/ AppendZ(t) \/ ReadUnlock(t) \/ ReadReturn(t)

\* the state after initialize(): devices created, start_acquisition() has run
InitRunning(n) ==
  /\ devices = 1..n
  /\ InitDevices
  /\ running = TRUE
  /\ acquisition_thread = 1
  /\ pc = [t \in Threads |-> IF t = 1 THEN "while" ELSE "unborn"]
  /\ cur = [t \in Threads |-> 1]
  /\ retry_count = [t \in Threads |-> [d \in Devices |-> 0]]
  /\ from = [t \in Threads |-> "loop"]
  /\ data = [t \in Threads |-> <<>>]
  /\ ret = [t \in Threads |-> RetNone]
  /\ ctl = "idle"
  /\ stopped = FALSE
  /\ result = NoResult
  /\ multi = NoMulti
  /\ now = 0
  /\ unreachable \in SUBSET devices
  /\ app = NoApp
  /\ pushed = [d \in Devices |-> <<>>]
  /\ gap = [t \in Threads |-> [d \in Devices |-> 0]]
  /\ lastPoll = [t \in Threads |-> [d \in Devices |-> "none"]]

\* Spec: the acquisition loop that initialize() starts, and the clock
Init == InitRunning(1)

Next ==
  \/ LoopStep(1)
  \/ Tick

Spec == Init /\ [][Next]_vars

\* SpecQuery: the acquisition loop and the consumers' queries
NextQuery ==
  \/ LoopStep(1)
  \/ \E d \in devices, ch \in Channels \cup {"W"} : GetBuffer(d, ch)
  \/ \E d \in devices : GetStatus(d)

SpecQuery == InitRunning(1) /\ [][NextQuery]_vars

\* SpecCtl: start_acquisition/stop_acquisition called in any order, with every
\* acquisition thread they leave alive; the device repeats one record
CtlLoopStep(t) ==
  \/ While(t) \/ Visit(t) \/ Sleep(t)
  \/ ConnectSocket(t) \/ ConnectCall(t) \/ ConnectReturn(t)
  \/ ReadCheck(t) \/ RecvSame(t) \/ RecvBadSocket(t)
  \/ ReadDisconnect(t) \/ ReadDecode(t) \/ ReadLock(t)
  \/ AppendX(t) \/ AppendY(t) \/ AppendZ(t) \/ ReadUnlock(t) \/ ReadReturn(t)

NextCtl ==
  \/ \E t \in Threads : CtlLoopStep(t)
  \/ StartAcquisition
  \/ StopAcquisition
  \/ JoinDone
  \/ JoinTimeout

SpecCtl == InitManager(1) /\ [][NextCtl]_vars

(* ------------------------------- claims -------------------------------- *)
\* the values appended to channel ch of device d so far, oldest first
ChanHist(d, ch) == [i \in 1..Len(pushed[d]) |-> ChannelValue(ch, pushed[d][i])]
LastN(q, n) == SubSeq(q, Len(q) - n + 1, Len(q))

\* C1: once more than buffer_size records have been appended to a device through
\* read_data, get_buffer(channel) returns exactly buffer_size values: the last
\* buffer_size values appended to that channel, oldest first.
C1_WrappedSnapshot ==
  [][\A d \in devices, ch \in Channels :
       (GetBuffer(d, ch) /\ Len(pushed[d]) > buffer_size[d])
         => /\ Len(result'.val) = buffer_size[d]
            /\ result'.val = LastN(ChanHist(d, ch), buffer_size[d])]_vars

\* a get_buffer result taken after the deque wrapped: the oldest value is gone
C1_Witness ==
  /\ result.op = "get_buffer"
  /\ result.ch \in Channels
  /\ Len(pushed[result.dev]) > Capacity
  /\ Len(result.val) = Capacity
  /\ result.val = LastN(ChanHist(result.dev, result.ch), Capacity)
  /\ result.val[1] # ChanHist(result.dev, result.ch)[1]

\* C9: in every reachable state each channel buffer of each device holds at most
\* buffer_size values, and buffer_size is still the capacity set at creation.
C9_LengthBounded ==
  \A d \in Devices :
    /\ buffer_size[d] = Capacity
    /\ \A ch \in Channels : Len(channels[d][ch]) <= buffer_size[d]

\* a full buffer into which a further record has been appended
C9_Witness ==
  \E d \in devices :
    /\ Len(pushed[d]) > Capacity
    /\ \A ch \in Channels : Len(channels[d][ch]) = Capacity

\* C2: once stop_acquisition() has returned (and start_acquisition() has not been
\* called again), no step appends to a channel buffer of any device.
C2_NoWriteAfterStop == [][stopped => channels' = channels]_vars

\* C3: at most one acquisition loop is alive at any time, whatever the order of
\* the start_acquisition() and stop_acquisition() calls.
C3_SingleLoop == Cardinality({t \in Threads : Alive(t)}) <= 1

\* C4: the loop calls connect() on a device whose connect() always fails at most
\* once in 10 consecutive polls of it: at every connect() attempt at least 10
\* polls have passed since the previous attempt (or since the loop began).
C4_BackoffSpacing ==
  \A t \in Threads, d \in unreachable :
    (cur[t] = d /\ pc[t] \in {"c_sock", "c_connect"}) => gap[t][d] >= RetryThreshold

\* a second connect() attempt on an unreachable device
C4_Witness ==
  \E d \in unreachable :
    /\ cur[1] = d
    /\ pc[1] = "c_connect"
    /\ last_connection_attempt[d] # None
    /\ gap[1][d] >= RetryThreshold

\* the step of thread t out of pc value p
StepFrom(t, p) == pc[t] = p /\ pc'[t] # p

\* C5: a read_data() on a connected device that receives fewer than 12 bytes
\* returns None and leaves connected, the channel buffers and
\* last_data_received as they were.
C5_PartialReadFrame ==
  [][\A t \in Threads :
       /\ (pc[t] = "recv" /\ pc'[t] = "rd_decode" /\ Len(data'[t]) < RecordLen)
            => /\ connected' = connected
               /\ channels' = channels
               /\ last_data_received' = last_data_received
       /\ (StepFrom(t, "rd_decode") /\ Len(data[t]) < RecordLen)
            => /\ pc'[t] = "rd_ret"
               /\ ret'[t] = RetNone
               /\ connected' = connected
               /\ channels' = channels
               /\ last_data_received' = last_data_received]_vars

\* read_data() has returned None after a 7-byte recv; the device is still connected
C5_Witness ==
  /\ pc[1] = "rd_ret"
  /\ Len(data[1]) = 7
  /\ ret[1] = RetNone
  /\ connected[cur[1]]
  /\ Len(pushed[cur[1]]) > 0
  /\ last_data_received[cur[1]] < now

\* the poll of device d by loop t that follows a read_data() failure
PollAfterReadFailure(t, d) ==
  /\ pc[t] = "visit"
  /\ cur[t] = d
  /\ lastPoll[t][d] = "read_fail"
  /\ (pc'[t] # "visit" \/ cur'[t] # d)

\* the effect of read_data() on a timeout or I/O error
ReadFailureEffect ==
  \A t \in Threads :
    StepFrom(t, "rd_disc")
      => /\ ~connected'[cur[t]]
         /\ channels' = channels
         /\ ret'[t] = RetNone

\* C6 as claimed: after a read_data() timeout or I/O error the device is
\* disconnected with unchanged buffers, and the next poll of that device by the
\* loop attempts connect().
C6_NextPollReconnects ==
  [][/\ ReadFailureEffect
     /\ \A t \in Threads, d \in devices :
          PollAfterReadFailure(t, d) => pc'[t] = "c_sock"]_vars

\* C6 amended: the device is disconnected with unchanged buffers, and the next
\* poll that finds it disconnected attempts connect() only if the loop's retry
\* counter for it has reached 10; otherwise it only increments the counter.
C6_ReconnectAfterBackoff ==
  [][/\ ReadFailureEffect
     /\ \A t \in Threads, d \in devices :
          (PollAfterReadFailure(t, d) /\ ~connected[d])
            => IF retry_count[t][d] >= RetryThreshold
                 THEN pc'[t] = "c_sock"
                 ELSE /\ pc'[t] # "c_sock"
                      /\ retry_count'[t][d] = retry_count[t][d] + 1]_vars

\* the poll after a read failure has only incremented the retry counter
C6_Witness ==
  \E d \in devices :
    /\ sock[d] = "closed"
    /\ ~connected[d]
    /\ lastPoll[1][d] = "skip"
    /\ retry_count[1][d] = 1
    /\ pc[1] = "sleep"

\* last_data_received is written for a record that is not yet in all three buffers
Torn(d) == \E t \in Threads : cur[t] = d /\ pc[t] \in {"rd_lock", "app_X", "app_Y", "app_Z"}

\* C7: state writes and consumer reads happen under the device lock, so that no
\* get_status() call observes last_data_received updated for a sample that is
\* not yet in the buffers.
C7_NoTornStatus == [][\A d \in devices : GetStatus(d) => ~Torn(d)]_vars

\* C8: an acquisition thread inside a network call (connect or recv) holds no
\* device lock, so get_buffer() on every device can complete while the thread
\* is blocked there.
C8_NoLockInNetworkCall ==
  \A t \in Threads :
    Blocking(t) =>
      \A d \in devices :
        /\ lock[d] # t
        /\ (\A u \in Threads \ {t} : ~Alive(u)) => ENABLED GetBuffer(d, "Z")

\* the thread is inside recv on a device that already has buffered samples
C8_Witness ==
  /\ pc[1] = "recv"
  /\ Len(channels[cur[1]]["Z"]) > 0
  /\ lock[cur[1]] = NoThread
  /\ result.op = "get_buffer"
  /\ Len(result.val) > 0

\* C10: connect() never raises to its caller: it returns False with
\* connected = false and last_connection_attempt recorded when the attempt
\* fails, and True with connected = true when it succeeds.
C10_ConnectReturnsBool ==
  [][\A t \in Threads :
       StepFrom(t, "c_connect")
         => /\ pc'[t] = "c_ret"
            /\ \/ /\ ret'[t] = RetBool(TRUE)
                  /\ connected'[cur[t]]
               \/ /\ ret'[t] = RetBool(FALSE)
                  /\ ~connected'[cur[t]]
                  /\ last_connection_attempt'[cur[t]] = now]_vars

\* a failed connect() has returned False and recorded a later attempt time
C10_Witness ==
  /\ pc[1] = "c_ret"
  /\ ret[1] = RetBool(FALSE)
  /\ ~connected[cur[1]]
  /\ last_connection_attempt[cur[1]] = now
  /\ now > 0

\* the last n values of q, or all of q when it holds fewer
TakeLast(q, n) == IF Len(q) <= n THEN q ELSE LastN(q, n)

\* the float of the 12 received bytes that belongs to channel ch
WordOf(ch, bytes) == IF ch = "X" THEN bytes[1] ELSE IF ch = "Y" THEN bytes[5] ELSE bytes[9]

\* C11: a read_data() call that receives a complete 12-byte record appends
\* exactly one value to each of the X, Y and Z buffers (the decoded x, y, z, in
\* that order), sets last_data_received and changes nothing else of the device.
C11_CompleteReadEffect ==
  [][\A t \in Threads :
       LET d == cur[t] IN
       /\ (StepFrom(t, "rd_decode") /\ Len(data[t]) = RecordLen)
            => /\ last_data_received' = [last_data_received EXCEPT ![d] = now]
               /\ UNCHANGED <<connected, sock, last_connection_attempt, channels, buffer_size>>
       /\ (pc[t] \in {"rd_lock", "app_X", "app_Y", "app_Z", "rd_unlock"} /\ pc'[t] # pc[t])
            => UNCHANGED <<connected, sock, last_connection_attempt, last_data_received,
                           buffer_size>>
       /\ StepFrom(t, "rd_unlock")
            => /\ \A ch \in Channels :
                    channels'[d][ch] =
                      TakeLast(Append(ChanHist(d, ch), WordOf(ch, data[t])), buffer_size[d])
               /\ \A e \in Devices \ {d} : channels'[e] = channels[e]
               /\ ret'[t] = RetTuple(<<data[t][1], data[t][5], data[t][9]>>)
               /\ lock'[d] = NoThread]_vars

\* read_data() has returned the tuple of a second record; the first is still buffered
C11_Witness ==
  /\ pc[1] = "rd_ret"
  /\ ret[1].kind = "tuple"
  /\ Len(pushed[cur[1]]) = 2
  /\ pushed[cur[1]][1] # pushed[cur[1]][2]
  /\ \A ch \in Channels : channels[cur[1]][ch] = ChanHist(cur[1], ch)
  /\ last_data_received[cur[1]] = now

(* ------------------- a pass over two devices --------------------------- *)
\* SpecPass: the loop that initialize() starts over two devices, each of which
\* may refuse connections, time out or fail on recv, or deliver its record; the
\* thread is scheduled again and again and every blocking call returns
PassStep(t) ==
  \/ While(t) \/ Visit(t) \/ Sleep(t)
  \/ ConnectSocket(t) \/ ConnectCall(t) \/ ConnectReturn(t)
  \/ ReadCheck(t) \/ RecvSame(t) \/ RecvTimeout(t) \/ RecvError(t)
  \/ ReadDisconnect(t) \/ ReadDecode(t) \/ ReadLock(t)
  \/ AppendX(t) \/ AppendY(t) \/ AppendZ(t) \/ ReadUnlock(t) \/ ReadReturn(t)

NextPass == PassStep(1)

SpecPass == InitRunning(2) /\ [][NextPass]_vars /\ WF_vars(NextPass)

\* the poll of device cur[t] by loop t ends with this step
PollEnds(t) ==
  /\ pc[t] \notin {"while", "sleep", "unborn", "dead", "crashed"}
  /\ (cur'[t] # cur[t] \/ pc'[t] = "sleep")

\* a connect() or read_data() of loop t fails with this step
FailureStep(t) ==
  \/ pc[t] = "rd_disc" /\ pc'[t] # "rd_disc"
  \/ pc[t] = "c_connect" /\ pc'[t] # "c_connect" /\ ret'[t] # RetBool(TRUE)

\* C12: a connect or read failure on one device never ends the acquisition loop:
\* while running is true the thread stays alive and every pass visits the managed
\* devices once each, in order, again and again; a failure leaves the device with
\* connected = false and last_data_received and buffers as they were, and no step
\* on one device touches another device or the running flag.
C12_LoopSurvivesFailure ==
  /\ [](running => Alive(1))
  /\ [][\A t \in Threads :
          /\ FailureStep(t)
               => /\ Alive(t)'
                  /\ ~connected'[cur[t]]
                  /\ UNCHANGED <<last_data_received, channels, running, devices>>
          /\ PollEnds(t)
               => IF cur[t] < Cardinality(devices)
                    THEN cur'[t] = cur[t] + 1 /\ pc'[t] = "visit"
                    ELSE cur'[t] = 1 /\ pc'[t] = "sleep"
          /\ (cur'[t] # cur[t]) => PollEnds(t)
          /\ (pc[t] = "sleep" /\ pc'[t] # "sleep") => pc'[t] = "while"
          /\ (pc[t] = "while" /\ pc'[t] # "while" /\ running)
               => pc'[t] = "visit" /\ cur'[t] = 1
          /\ (pc[t] # pc'[t] \/ cur[t] # cur'[t])
               => /\ UNCHANGED <<running, devices>>
                  /\ \A e \in devices \ {cur[t]} :
                       /\ connected'[e] = connected[e]
                       /\ sock'[e] = sock[e]
                       /\ last_connection_attempt'[e] = last_connection_attempt[e]
                       /\ last_data_received'[e] = last_data_received[e]
                       /\ channels'[e] = channels[e]
                       /\ retry_count'[t][e] = retry_count[t][e]]_vars
  /\ \A d \in Devices :
       []<>(d \in devices => (pc[1] = "visit" /\ cur[1] = d))

\* device 1 failed on read and has been skipped since, device 2 was read in between
C12_Witness ==
  /\ lastPoll[1][1] = "skip"
  /\ ~connected[1]
  /\ sock[1] = "closed"
  /\ retry_count[1][1] >= 2
  /\ lastPoll[1][2] = "read_ok"
  /\ pc[1] = "visit"
  /\ cur[1] = 2

(* ------------------ DeviceManager waveform queries --------------------- *)
\* sample counts a consumer asks for: none, fewer than, as many as and more than
\* the buffer can hold
SampleCounts == 0..(Capacity + 1)

\* Python q[-n:] for n >= 0: from index len - n (not below 0) to the end, and
\* -0 is 0, so that q[-0:] is the whole of q
SliceTail(q, n) == IF n = 0 \/ n >= Len(q) THEN q ELSE SubSeq(q, Len(q) - n + 1, Len(q))

\* devices.py:271-275  the last `samples` values of the snapshot
WaveData(buffer, samples) == IF Len(buffer) > samples THEN SliceTail(buffer, samples) ELSE buffer

\* devices.py:278-279  np.arange(len(data)) * dt - len(buffer) * dt, in units of
\* dt = 1 / sampling_rate: element i (from 0) is i - len(buffer)
WaveTimes(buffer, wdata) == [i \in 1..Len(wdata) |-> (i - 1) - Len(buffer)]

WaveNone == [none |-> TRUE, data |-> <<>>, times |-> <<>>]

\* devices.py:268-269  device.get_buffer(channel) as get_latest_waveform sees it
BufferOf(d, ch) == IF ch \in Channels THEN channels[d][ch] ELSE <<>>

\* devices.py:265-295  the value get_latest_waveform returns: None, or the dict
\* with its 'data' and 'times' lists
Waveform(d, ch, samples) ==
  IF d \notin devices THEN WaveNone
  ELSE IF Len(BufferOf(d, ch)) = 0 THEN WaveNone
  ELSE [none |-> FALSE,
        data |-> WaveData(BufferOf(d, ch), samples),
        times |-> WaveTimes(BufferOf(d, ch), WaveData(BufferOf(d, ch), samples))]

\* devices.py:144-153  the fields of get_status() that vary
StatusOf(d) == <<IF connected[d] THEN 1 ELSE 0, last_data_received[d], Len(channels[d]["Z"])>>

\* devices.py:239-244  get_device_status: get_status() of every device, here
\* the three fields of device 1, then those of device 2, ...
GetDeviceStatus ==
  /\ result' = [op |-> "get_device_status", dev |-> 0, ch |-> "-",
                val |-> [i \in 1..(3 * Cardinality(devices)) |->
                           StatusOf(((i - 1) \div 3) + 1)[((i - 1) % 3) + 1]]]
  /\ UNCHANGED <<devVars, mgrVars, thrVars, ctlVars, multi, now, envVars, histVars>>

\* devices.py:246-250  get_device_info: get_info() of a known device, else None
GetDeviceInfo(d) ==
  /\ result' = [op |-> "get_device_info", dev |-> d, ch |-> "-",
                val |-> IF d \in devices THEN StatusOf(d) ELSE <<>>]
  /\ UNCHANGED <<devVars, mgrVars, thrVars, ctlVars, multi, now, envVars, histVars>>

\* devices.py:311-316  list_devices: the id of every device
ListDevices ==
  /\ result' = [op |-> "list_devices", dev |-> 0, ch |-> "-",
                val |-> [d \in 1..Cardinality(devices) |-> d]]
  /\ UNCHANGED <<devVars, mgrVars, thrVars, ctlVars, multi, now, envVars, histVars>>

\* devices.py:252-295  get_latest_waveform: the snapshot is taken by get_buffer
\* under the device's lock, the rest works on the copy
GetLatestWaveform(d, ch, samples) ==
  /\ d \in devices => lock[d] = NoThread
  /\ result' = [op |-> "get_latest_waveform", dev |-> d, ch |-> ch,
                val |-> Waveform(d, ch, samples).data,
                times |-> Waveform(d, ch, samples).times,
                none |-> Waveform(d, ch, samples).none]
  /\ UNCHANGED <<devVars, mgrVars, thrVars, ctlVars, multi, now, envVars, histVars>>

\* devices.py:297-301  get_multi_channel_waveform: None for an unknown device;
\* for a known one the call begins and the consumer holds no returned value
MultiBegin(d, samples) ==
  /\ multi.at = "idle"
  /\ IF d \notin devices
       THEN /\ result' = [op |-> "get_multi_channel_waveform", dev |-> d, ch |-> "-",
                          val |-> <<>>, parts |-> <<>>]
            /\ multi' = multi
       ELSE /\ multi' = [at |-> "X", dev |-> d, n |-> samples, parts |-> <<>>]
            /\ result' = NoResult
  /\ UNCHANGED <<devVars, mgrVars, thrVars, ctlVars, now, envVars, histVars>>

\* devices.py:303-309  the three get_latest_waveform calls, one after the other,
\* and the return of the dict after the third
MultiChannel ==
  /\ multi.at \in Channels
  /\ lock[multi.dev] = NoThread
  /\ LET parts == Append(multi.parts, Waveform(multi.dev, multi.at, multi.n)) IN
     IF multi.at = "Z"
       THEN /\ result' = [op |-> "get_multi_channel_waveform", dev |-> multi.dev,
                          ch |-> "-", val |-> <<>>, parts |-> parts]
            /\ multi' = NoMulti
       ELSE /\ multi' = [multi EXCEPT !.at = IF multi.at = "X" THEN "Y" ELSE "Z",
                                      !.parts = parts]
            /\ result' = result
  /\ UNCHANGED <<devVars, mgrVars, thrVars, ctlVars, now, envVars, histVars>>

\* SpecWave: the acquisition loop over a device that delivers its records, and a
\* consumer thread that calls the queries of the manager one after the other,
\* with known and unknown device ids and channels
WaveLoopStep(t) ==
  \/ While(t) \/ Visit(t) \/ Sleep(t)
  \/ ConnectSocket(t) \/ ConnectCall(t) \/ ConnectReturn(t)
  \/ ReadCheck(t) \/ RecvFull(t)
  \/ ReadDecode(t) \/ ReadLock(t)
  \/ AppendX(t) \/ AppendY(t) \/ AppendZ(t) \/ ReadUnlock(t) \/ ReadReturn(t)

Query ==
  \/ GetDeviceStatus
  \/ \E d \in Devices : GetDeviceInfo(d)
  \/ ListDevices
  \/ \E d \in devices, ch \in Channels \cup {"W"} : GetBuffer(d, ch)
  \/ \E d \in Devices, ch \in Channels \cup {"W"}, n \in SampleCounts :
       GetLatestWaveform(d, ch, n)
  \/ \E d \in Devices, n \in SampleCounts : MultiBegin(d, n)

NextWave ==
  \/ WaveLoopStep(1)
  \/ multi.at = "idle" /\ Query
  \/ MultiChannel

SpecWave == InitRunning(1) /\ [][NextWave]_vars

\* C13: the consumer queries get_device_status, get_device_info, get_buffer,
\* get_latest_waveform, get_multi_channel_waveform and list_devices leave every
\* device's buffers, connected flag, timestamps and socket unchanged, for known
\* and unknown device ids and channels alike: no step in which the consumer gets
\* a value from a query, or moves on inside get_multi_channel_waveform, changes them.
C13_QueriesReadOnly ==
  [][(result' # result \/ multi' # multi)
       => UNCHANGED <<channels, connected, last_data_received,
                      last_connection_attempt, sock, buffer_size>>]_vars

\* get_multi_channel_waveform has returned three waveforms of a connected device
\* whose buffers still hold what was appended
C13_Witness ==
  /\ result.op = "get_multi_channel_waveform"
  /\ result.dev \in devices
  /\ Len(result.parts) = 3
  /\ \A i \in 1..3 : ~result.parts[i].none
  /\ connected[result.dev]
  /\ sock[result.dev] = "open"
  /\ last_data_received[result.dev] # None
  /\ \A ch \in Channels : channels[result.dev][ch] = ChanHist(result.dev, ch)
  /\ Len(pushed[result.dev]) = Capacity

(* ------------------------- stopping the loop --------------------------- *)
\* SpecStop: the loop that initialize() starts, and a controller that calls
\* stop_acquisition() and no start_acquisition() afterwards; the thread is
\* scheduled again and again and its connect and recv calls return (both
\* socket calls run under settimeout(5))
StopLoopStep(t) ==
  \/ While(t) \/ Visit(t) \/ Sleep(t)
  \/ ConnectSocket(t) \/ ConnectCall(t) \/ ConnectReturn(t)
  \/ ReadCheck(t) \/ RecvSame(t) \/ RecvTimeout(t) \/ RecvError(t)
  \/ ReadDisconnect(t) \/ ReadDecode(t) \/ ReadLock(t)
  \/ AppendX(t) \/ AppendY(t) \/ AppendZ(t) \/ ReadUnlock(t) \/ ReadReturn(t)

NextStop ==
  \/ StopLoopStep(1)
  \/ StopAcquisition
  \/ JoinDone
  \/ JoinTimeout

SpecStop == InitRunning(1) /\ [][NextStop]_vars /\ WF_vars(StopLoopStep(1))

\* C14: after stop_acquisition() has set running to False, and with no
\* start_acquisition() after it, the loop begins no new pass and eventually
\* exits, provided its pending connect or read returns: the thread finishes the
\* pass it is in, sleeps once, tests running and ends.
C14_StopEndsLoop ==
  /\ [][\A t \in Threads :
          ~running
            => /\ (pc[t] = "while" /\ pc'[t] # "while") => pc'[t] = "dead"
               /\ (pc[t] = "sleep" /\ pc'[t] # "sleep") => pc'[t] = "while"
               /\ (pc[t] = "dead") => pc'[t] = "dead"
               /\ (cur'[t] # cur[t]) => (cur'[t] > cur[t] \/ pc'[t] = "sleep")
               /\ running' = running]_vars
  /\ [](~running => <>(pc[1] = "dead"))

\* stop_acquisition() has returned and the thread, which had read records, has ended
C14_Witness ==
  /\ ~running
  /\ stopped
  /\ ctl = "idle"
  /\ pc[1] = "dead"
  /\ lastPoll[1][1] = "read_ok"
  /\ Len(pushed[1]) >= 2

\* C15: for a known device whose channel buffer holds B >= 1 samples and for
\* every requested count N >= 0, get_latest_waveform returns exactly min(N, B)
\* samples, and they are the min(N, B) most recent buffer entries in
\* chronological order.
C15_LatestSamples ==
  [][\A d \in devices, ch \in Channels, n \in SampleCounts :
       (GetLatestWaveform(d, ch, n) /\ Len(channels[d][ch]) >= 1)
         => /\ ~result'.none
            /\ Len(result'.val) = Min(n, Len(channels[d][ch]))
            /\ result'.val = LastN(channels[d][ch], Min(n, Len(channels[d][ch])))]_vars

\* C16: in get_latest_waveform the time axis is relative to now: for every buffer
\* length B >= 1 and requested count N >= 1 all returned times are negative and
\* strictly increasing, and the k-th most recent returned sample has time -k/fs
\* (times in units of 1/fs; the newest returned sample gets -1).
C16_TimesRelativeToNow ==
  [][\A d \in devices, ch \in Channels, n \in SampleCounts \ {0} :
       (GetLatestWaveform(d, ch, n) /\ Len(channels[d][ch]) >= 1)
         => LET times == result'.times IN
            /\ Len(times) = Len(result'.val)
            /\ \A i \in 1..Len(times) : times[i] < 0
            /\ \A i \in 1..(Len(times) - 1) : times[i] < times[i + 1]
            /\ \A k \in 1..Len(times) : times[Len(times) - k + 1] = -k]_vars

(* ------------------- src/app.py: _latest_mseed_path -------------------- *)
\* files in the raw directory of one run, and the modification times they have
MaxFiles == 2
MaxMtime == 2

\* app.py:32-34  search_dirs = [st_dir, root]
SearchDirs == <<"st_dir", "root">>

\* file names, as the codes they contain in order: "S" the station asked for,
\* "C" the channel asked for, "T" the code of another station
FileNames == { <<"S", "C">>, <<"C">>, <<"C", "S">>, <<"S">>, <<"T", "C">> }
FileExts == {".mseed", ".dat"}

\* regular files that can lie in the two directories
FileUniverse ==
  [dir : {"st_dir", "root"}, name : FileNames, ext : FileExts, mtime : 1..MaxMtime]

\* `best = None`
NoFile == [dir |-> "-", name |-> <<>>, ext |-> "", mtime |-> -1]

\* app.py:35-45  pats: with or without the station, with or without an extension
Pats ==
  << [station |-> TRUE,  ext |-> ""],
     [station |-> FALSE, ext |-> ""],
     [station |-> TRUE,  ext |-> ".mseed"],
     [station |-> TRUE,  ext |-> ".miniseed"],
     [station |-> TRUE,  ext |-> ".msd"],
     [station |-> TRUE,  ext |-> ".seed"],
     [station |-> TRUE,  ext |-> ".mseed.gz"],
     [station |-> TRUE,  ext |-> ".miniseed.gz"] >>

HasCode(name, c) == \E i \in 1..Len(name) : name[i] = c
\* "*{station}*{channel}*": the station code, later the channel code
StationThenChannel(name) ==
  \E i \in 1..Len(name), j \in 1..Len(name) : i < j /\ name[i] = "S" /\ name[j] = "C"

\* app.py:51  d.glob(pat): does the pattern match the file name
GlobMatch(pat, file) ==
  /\ IF pat.station THEN StationThenChannel(file.name) ELSE HasCode(file.name, "C")
  /\ pat.ext = "" \/ file.ext = pat.ext

\* app.py:51  the files d.glob(pat) yields
Glob(files, d, pat) == { p \in files : p.dir = d /\ GlobMatch(pat, p) }

\* app.py:56  if mt > best_mtime
NewerOrSame(mt, best_mtime) == mt >= best_mtime
Newer(mt, best_mtime) == mt > best_mtime

\* the directory listings _latest_mseed_path can meet: the raw directory may be
\* missing, the station subdirectory may be missing, at most MaxFiles files
RECURSIVE FileSets(_)
FileSets(k) ==
  IF k = 0 THEN {{}}
  ELSE FileSets(k - 1) \cup { s \cup {p} : s \in FileSets(k - 1), p \in FileUniverse }

LookupInputs ==
  { in \in [dirs : {{}, {"root"}, {"root", "st_dir"}}, files : FileSets(MaxFiles)] :
      \A p \in in.files : p.dir \in in.dirs }

\* app.py:30-47  entry of _latest_mseed_path: best = None, best_mtime = -1.0
LookupStart(in) ==
  [f |-> "_latest_mseed_path", dirs |-> in.dirs, files |-> in.files, at |-> "dir",
   di |-> 1, pi |-> 1, todo |-> {}, best |-> NoFile, best_mtime |-> -1]

AppOnly == UNCHANGED <<devVars, mgrVars, thrVars, ctlVars, conVars, now, unreachable, histVars>>

\* app.py:48-50, 59  for d in search_dirs: skip a missing directory; return best
LookupDir ==
  /\ app.f = "_latest_mseed_path"
  /\ app.at = "dir"
  /\ IF app.di > Len(SearchDirs)
       THEN app' = [app EXCEPT !.at = "done"]
       ELSE IF SearchDirs[app.di] \notin app.dirs
       THEN app' = [app EXCEPT !.di = app.di + 1]
       ELSE app' = [app EXCEPT !.at = "pat", !.pi = 1]
  /\ AppOnly

\* app.py:50-51  for pat in pats: d.glob(pat)
LookupPat ==
  /\ app.f = "_latest_mseed_path"
  /\ app.at = "pat"
  /\ IF app.pi > Len(Pats)
       THEN app' = [app EXCEPT !.at = "dir", !.di = app.di + 1]
       ELSE app' = [app EXCEPT !.at = "glob",
                               !.todo = Glob(app.files, SearchDirs[app.di], Pats[app.pi])]
  /\ AppOnly

\* app.py:51-57  for p in d.glob(pat), in the order the directory gives them:
\* keep p when its mtime is greater than the best so far
LookupYield ==
  /\ app.f = "_latest_mseed_path"
  /\ app.at = "glob"
  /\ IF app.todo = {}
       THEN app' = [app EXCEPT !.at = "pat", !.pi = app.pi + 1]
       ELSE \E p \in app.todo :
              IF Newer(p.mtime, app.best_mtime)
                THEN app' = [app EXCEPT !.todo = app.todo \ {p},
                                        !.best = p, !.best_mtime = p.mtime]
                ELSE app' = [app EXCEPT !.todo = app.todo \ {p}]
  /\ AppOnly

\* SpecLookup: _latest_mseed_path(station, channel) on every directory listing
InitLookup ==
  /\ InitManagerVars(1)
  /\ \E in \in LookupInputs : app = LookupStart(in)

NextLookup ==
  \/ LookupDir
  \/ LookupPat
  \/ LookupYield

SpecLookup == InitLookup /\ [][NextLookup]_vars

\* files whose name holds the station code and the channel code
NamedForBoth(files) == { p \in files : HasCode(p.name, "S") /\ HasCode(p.name, "C") }
\* files that at least one of the patterns matches
PatternMatched(files) == { p \in files : \E i \in 1..Len(Pats) : GlobMatch(Pats[i], p) }

\* C17: for any set of files under the search root, _latest_mseed_path(station,
\* channel) returns a file whose name matches both the station code and the
\* channel code and whose modification time is the greatest among all such
\* files; it returns None exactly when no such file exists.
C17_LatestMatchingFile ==
  (app.f = "_latest_mseed_path" /\ app.at = "done")
    => /\ (app.best = NoFile) <=> (NamedForBoth(app.files) = {})
       /\ app.best # NoFile
            => /\ app.best \in NamedForBoth(app.files)
               /\ \A p \in NamedForBoth(app.files) : p.mtime <= app.best.mtime

\* C18 (as claimed): whenever the station subdirectory contains at least one
\* matching file, _latest_mseed_path returns a file from that subdirectory,
\* whatever the modification times of the matching files in the root.
C18_SubdirPreferred ==
  (app.f = "_latest_mseed_path" /\ app.at = "done"
     /\ \E p \in PatternMatched(app.files) : p.dir = "st_dir")
    => app.best.dir = "st_dir"

\* C18: the lookup returns the most recently modified file among the files
\* that its patterns match in the station subdirectory and in the root
\* together; when the subdirectory holds a matched file, the returned file is
\* from the subdirectory if and only if no matched file in the root is strictly
\* newer than every matched file of the subdirectory.
C18_LatestAcrossDirs ==
  (app.f = "_latest_mseed_path" /\ app.at = "done"
     /\ \E p \in PatternMatched(app.files) : p.dir = "st_dir")
    => LET m == PatternMatched(app.files)
           rootNewer == \E r \in m : r.dir = "root"
                                     /\ \A p \in m : p.dir = "st_dir" => r.mtime > p.mtime
       IN /\ app.best \in m
          /\ \A p \in m : p.mtime <= app.best.mtime
          /\ (app.best.dir = "st_dir") <=> ~rootNewer

\* the subdirectory and the root each hold a matched file of the same age and
\* the file of the subdirectory was returned
C18_Witness ==
  /\ app.f = "_latest_mseed_path"
  /\ app.at = "done"
  /\ app.best.dir = "st_dir"
  /\ \E r \in PatternMatched(app.files) : r.dir = "root" /\ r.mtime = app.best.mtime

(* -------------------- src/app.py: _load_last_window -------------------- *)
\* samples in the trace read from the file, and the longest window asked for,
\* in samples (window_s * fs)
MaxRecord == 11
MaxWindow == 11
\* app.py:108  if n < 10: raise RuntimeError("Trace too short")
MinSamples == 10

\* the value of window_s * fs, in half samples, so that windows ending between
\* two samples are covered: -2 is a negative window_s, odd values lie halfway
HalfWindows == (-2)..(2 * MaxWindow)

\* the samples of the trace, each written as its position in the record
Record(npts) == [i \in 1..npts |-> i]
Zeros(k) == [i \in 1..k |-> 0]

\* app.py:98-101  tr.trim(starttime=end - window_s, endtime=end, pad=True,
\* fill_value=0) of ObsPy: the trace is cut or zero-padded at the front so that
\* it starts at the sample nearest to the start time and still ends at its last
\* sample; both ends belong to the window, so `keep` = 1 + (window_s * fs rounded
\* to a whole sample) samples remain
TrimKeepWindowOnly(tr, keep) ==
  IF keep - 1 <= Len(tr) THEN SubSeq(tr, Len(tr) - keep + 2, Len(tr))
  ELSE Zeros(keep - 1 - Len(tr)) \o tr
TrimKeep(tr, keep) ==
  IF keep <= Len(tr) THEN SubSeq(tr, Len(tr) - keep + 1, Len(tr))
  ELSE Zeros(keep - Len(tr)) \o tr

\* window_s * fs rounded to a whole sample: ObsPy rounds the offset of the start
\* time to the nearest sample, a window ending halfway may go either way
RoundedSamples(h) == IF h % 2 = 0 THEN {h \div 2} ELSE {(h - 1) \div 2, (h + 1) \div 2}

\* the calls _load_last_window can get: whether a file was found, how many
\* traces the file holds, the length of the first trace, its sampling rate
\* (positive or not), and the window
LoadInputs ==
  [found : BOOLEAN, traces : 0..1, npts : 1..MaxRecord, fs_ok : BOOLEAN, h : HalfWindows]

LoadStart(in) ==
  [f |-> "_load_last_window", in |-> in, at |-> "find", tr |-> <<>>, error |-> "", n |-> 0]

\* app.py:70-72  p = _latest_mseed_path(...); FileNotFoundError when there is none
LoadFind ==
  /\ app.f = "_load_last_window"
  /\ app.at = "find"
  /\ IF app.in.found
       THEN app' = [app EXCEPT !.at = "read"]
       ELSE app' = [app EXCEPT !.at = "raised", !.error = "FileNotFoundError"]
  /\ AppOnly

\* app.py:74-95  read the stream, take a copy of its first trace (merge, detrend
\* and taper keep the number of samples), test the sampling rate
LoadRead ==
  /\ app.f = "_load_last_window"
  /\ app.at = "read"
  /\ IF app.in.traces < 1
       THEN app' = [app EXCEPT !.at = "raised", !.error = "Empty stream"]
       ELSE IF ~app.in.fs_ok
       THEN app' = [app EXCEPT !.at = "raised", !.error = "Invalid sampling rate"]
       ELSE app' = [app EXCEPT !.at = "trim", !.tr = Record(app.in.npts)]
  /\ AppOnly

\* app.py:97-104  trim to the last window_s seconds; trim raises for a start
\* time after the end time (window_s < 0) and the trace is then left as it is
LoadTrim ==
  /\ app.f = "_load_last_window"
  /\ app.at = "trim"
  /\ IF app.in.h < 0
       THEN app' = [app EXCEPT !.at = "size"]
       ELSE \E k \in RoundedSamples(app.in.h) :
              app' = [app EXCEPT !.at = "size", !.tr = TrimKeep(app.tr, k + 1)]
  /\ AppOnly

\* app.py:106-126  n = y.size; "Trace too short" below 10 samples, else the dict
LoadReturn ==
  /\ app.f = "_load_last_window"
  /\ app.at = "size"
  /\ IF Len(app.tr) < MinSamples
       THEN app' = [app EXCEPT !.at = "raised", !.error = "Trace too short"]
       ELSE app' = [app EXCEPT !.at = "returned", !.n = Len(app.tr)]
  /\ AppOnly

\* SpecLoad: _load_last_window on every input
InitLoad ==
  /\ InitManagerVars(1)
  /\ \E in \in LoadInputs : app = LoadStart(in)

NextLoad ==
  \/ LoadFind
  \/ LoadRead
  \/ LoadTrim
  \/ LoadReturn

SpecLoad == InitLoad /\ [][NextLoad]_vars

\* C19 (as claimed): for every record length and every requested window_s, a
\* successful _load_last_window returns exactly round(window_s * fs) samples:
\* the trailing window_s seconds of the record, zero-padded at the front when
\* the record is shorter than requested.
C19_ExactWindowLength ==
  (app.f = "_load_last_window" /\ app.at = "returned")
    => \E k \in RoundedSamples(app.in.h) :
         /\ app.n = k
         /\ Len(app.tr) = k
         /\ app.tr = TrimKeep(Record(app.in.npts), k)

\* C19: a successful _load_last_window with window_s >= 0 returns the samples
\* between the end of the trace minus window_s and the end of the trace, both ends
\* included: one more than window_s * fs rounded to a whole sample, zero-padded
\* at the front when the trace is shorter; with window_s < 0 the trim fails and
\* the whole trace is returned; a result always has at least 10 samples.
C19_WindowPlusOne ==
  (app.f = "_load_last_window" /\ app.at = "returned")
    => /\ app.n = Len(app.tr)
       /\ app.n >= MinSamples
       /\ IF app.in.h < 0
            THEN app.tr = Record(app.in.npts)
            ELSE \E k \in RoundedSamples(app.in.h) :
                   /\ app.n = k + 1
                   /\ \A i \in 1..app.n :
                        app.tr[i] = IF i <= app.n - app.in.npts THEN 0
                                    ELSE app.in.npts - app.n + i

\* a window of 10 samples on a trace of 5: 11 samples returned, 6 of them padding
C19_Witness ==
  /\ app.f = "_load_last_window"
  /\ app.at = "returned"
  /\ app.in.h = 2 * MinSamples
  /\ app.in.npts = 5
  /\ app.n = MinSamples + 1
  /\ app.tr[6] = 0
  /\ app.tr[7] = 1

(* ---------------- src/app.py: _fft_mag, api_spectrum ------------------- *)
\* samples in the window and the greatest magnitude of a bin
MaxN == 7
MaxMag == 2

\* np.fft.rfftfreq(n, d=1/fs): bins 0..n//2, bin k at k * fs / n; frequencies
\* are written in units of fs / n, so that bin k has frequency k
RfftFreq(n) == [i \in 1..((n \div 2) + 1) |-> i - 1]

\* app.py:139-143, 234-238  fmax_eff = min(fmax, fs / 2); m = f <= fmax_eff:
\* `cut` is fmax in units of fs / n rounded down, twice the Nyquist bin is n
KeepBin(fk, cut, n) == fk <= cut /\ 2 * fk <= n

\* f[m], mag[m]: the bins that pass the mask, in order (the mask is a prefix)
Masked(s, f, cut, n) ==
  LET cnt == Cardinality({i \in 1..Len(f) : KeepBin(f[i], cut, n)}) IN SubSeq(s, 1, cnt)

\* mag2[1:]
DropDC(s) == Tail(s)

\* app.py:147, 240, 595  if f2.size > 2
MoreThanOne(size) == size > 1
MoreThanTwo(size) == size > 2

\* np.argmax: the index (from 0) of the first greatest element
ArgMax(s) ==
  (CHOOSE i \in 1..Len(s) : /\ \A j \in 1..Len(s) : s[j] <= s[i]
                            /\ \A j \in 1..(i - 1) : s[j] < s[i]) - 1

\* the windows and ceilings of a call: n samples, the magnitude of every bin,
\* and fmax (negative, zero, inside the band, at and above Nyquist)
FftInputs ==
  UNION { [n : {n}, mag : [1..((n \div 2) + 1) -> 0..MaxMag], cut : (-1)..((n \div 2) + 1)] :
            n \in 1..MaxN }

FftStart(in) ==
  [f |-> "_fft_mag", in |-> in, at |-> "mask", f2 |-> <<>>, mag2 |-> <<>>, dom_f |-> 0]

\* app.py:139-143 (234-238, 590-593)  limit to fmax and Nyquist
FftMask ==
  /\ app.f = "_fft_mag"
  /\ app.at = "mask"
  /\ app' = [app EXCEPT !.at = "dom",
                        !.f2 = Masked(RfftFreq(app.in.n), RfftFreq(app.in.n),
                                      app.in.cut, app.in.n),
                        !.mag2 = Masked(app.in.mag, RfftFreq(app.in.n),
                                        app.in.cut, app.in.n)]
  /\ AppOnly

\* app.py:145-151 (239-242, 594-597)  dom_f = 0.0; with more than 2 bins the
\* frequency of the greatest magnitude after the DC bin
FftDominant ==
  /\ app.f = "_fft_mag"
  /\ app.at = "dom"
  /\ IF MoreThanTwo(Len(app.f2))
       THEN app' = [app EXCEPT !.at = "returned",
                               !.dom_f = app.f2[(ArgMax(DropDC(app.mag2)) + 1) + 1]]
       ELSE app' = [app EXCEPT !.at = "returned"]
  /\ AppOnly

\* SpecFft: the dominant-frequency extraction on every spectrum
InitFft ==
  /\ InitManagerVars(1)
  /\ \E in \in FftInputs : app = FftStart(in)

NextFft ==
  \/ FftMask
  \/ FftDominant

SpecFft == InitFft /\ [][NextFft]_vars

\* C20: in the single-shot FFT spectrum the reported dominant frequency is the
\* frequency of the maximum-magnitude bin among bins 1..end of the spectrum
\* truncated to min(fmax, fs/2) (bin 0 is never reported), and it is 0 when
\* fewer than 3 bins remain after the truncation; no error is raised then.
C20_DominantFrequency ==
  (app.f = "_fft_mag" /\ app.at = "returned")
    => LET nyq == app.in.n \div 2
           last == IF app.in.cut < nyq THEN app.in.cut ELSE nyq
           bins == IF last < 0 THEN 0 ELSE last + 1
       IN /\ Len(app.f2) = bins
          /\ Len(app.mag2) = bins
          /\ \A k \in 0..(bins - 1) : app.f2[k + 1] = k /\ app.mag2[k + 1] = app.in.mag[k + 1]
          /\ IF bins < 3
               THEN app.dom_f = 0
               ELSE /\ app.dom_f \in 1..(bins - 1)
                    /\ \A k \in 1..(bins - 1) : app.in.mag[k + 1] <= app.in.mag[app.dom_f + 1]

\* a truncated spectrum whose greatest magnitude is in the DC bin and whose
\* greatest magnitude after it is in the last kept bin, which is reported
C20_Witness ==
  /\ app.f = "_fft_mag"
  /\ app.at = "returned"
  /\ Len(app.f2) = 3
  /\ Len(app.in.mag) = 4
  /\ app.in.mag[1] = MaxMag
  /\ app.in.mag[2] = 0
  /\ app.in.mag[3] = 1
  /\ app.dom_f = 2

(* ------------- src/app.py: the api_spectrum definitions ---------------- *)
\* longest window handed to the spectrum
MaxWave == 17
\* app.py:226  if n < 16: raise RuntimeError("wave too short for FFT")
FftMinSamples == 16

\* the definitions of the operation in app.py: api_spectrum at line 211 (inline
\* FFT with a length test), at line 358 (calls _fft_mag with fmax=), at line 574
\* (inline FFT, no length test), and _fft_mag of line 128 called on a window
SpectrumVariants == {"api_211", "api_358", "api_574", "_fft_mag_128"}

\* what the variant gets as its window: an api_spectrum gets the result of
\* _load_last_window, which raised (0) or returned at least MinSamples samples;
\* _fft_mag gets any window of at least one sample
SpectrumInputs ==
  { in \in [variant : SpectrumVariants, n : 0..MaxWave] :
      IF in.variant = "_fft_mag_128" THEN in.n >= 1 ELSE in.n = 0 \/ in.n >= MinSamples }

SpectrumStart(in) ==
  [f |-> "api_spectrum", variant |-> in.variant, n |-> in.n, at |-> "load",
   ok |-> FALSE, bins |-> 0, error |-> ""]

\* app.py:221, 366, 583  d = _load_last_window(...): its exception is caught by
\* the handler of the route and answered with ok = False
SpectrumLoad ==
  /\ app.f = "api_spectrum"
  /\ app.at = "load"
  /\ IF app.variant # "_fft_mag_128" /\ app.n = 0
       THEN app' = [app EXCEPT !.at = "returned", !.error = "load failed"]
       ELSE app' = [app EXCEPT !.at = "check"]
  /\ AppOnly

\* app.py:224-227  the length test, which only the definition of line 211 has;
\* app.py:367  the definition of line 358 calls _fft_mag(..., fmax=fmax), and the
\* name _fft_mag is bound to the definition of line 194, which takes no fmax:
\* TypeError, caught by the handler
SpectrumCheck ==
  /\ app.f = "api_spectrum"
  /\ app.at = "check"
  /\ IF app.variant = "api_211" /\ app.n < FftMinSamples
       THEN app' = [app EXCEPT !.at = "returned", !.error = "wave too short for FFT"]
       ELSE IF app.variant = "api_358"
       THEN app' = [app EXCEPT !.at = "returned", !.error = "TypeError"]
       ELSE app' = [app EXCEPT !.at = "fft"]
  /\ AppOnly

\* app.py:229-257, 131-151, 586-611  hanning, rfft, the n // 2 + 1 bins and the
\* answer with ok = True
SpectrumFft ==
  /\ app.f = "api_spectrum"
  /\ app.at = "fft"
  /\ app' = [app EXCEPT !.at = "returned", !.ok = TRUE, !.bins = Len(RfftFreq(app.n))]
  /\ AppOnly

\* SpecSpectrum: every definition of the single-shot spectrum on every window
InitSpectrum ==
  /\ InitManagerVars(1)
  /\ \E in \in SpectrumInputs : app = SpectrumStart(in)

NextSpectrum ==
  \/ SpectrumLoad
  \/ SpectrumCheck
  \/ SpectrumFft

SpecSpectrum == InitSpectrum /\ [][NextSpectrum]_vars

\* C21: the single-shot FFT spectrum fails with an error outcome (ok = false, no
\* spectrum returned) whenever its input window has fewer than 16 samples, in
\* every variant of the operation (the api_spectrum definitions and _fft_mag).
C21_ShortWindowFails ==
  (app.f = "api_spectrum" /\ app.at = "returned" /\ app.n < FftMinSamples)
    => ~app.ok /\ app.bins = 0

(* ---------- src/ext_spectrum_live.py: _welch_amp2, api_spectrum_live --- *)
\* samples of the signal and the longest segment
MaxSig == 6
MaxSeg == 4

Max(a, b) == IF a > b THEN a ELSE b

\* ext_spectrum_live.py:30  hop = max(1, nperseg - noverlap)
HopNoOverlap(nperseg, noverlap) == Max(1, nperseg)
Hop(nperseg, noverlap) == Max(1, nperseg - noverlap)

\* ext_spectrum_live.py:31  nseg = 1 + (n - nperseg) // hop
NSeg(n, nperseg, hop) == 1 + ((n - nperseg) \div hop)

\* ext_spectrum_live.py:42  the size of x[i0:i0 + nperseg] for an x of n samples
SliceSize(n, i0, nperseg) == Min(n, i0 + nperseg) - Min(n, i0)

\* the calls of _welch_amp2: n samples, nperseg >= 1, 0 <= noverlap < nperseg,
\* a sampling rate that is positive or not, fmax as the last bin it keeps
\* (nperseg // 2: no truncation, -1: below every bin) and the amplitude
\* sqrt(P / nseg) that the segments' FFTs give for every bin
WelchInputs ==
  UNION { [n : 0..MaxSig, nperseg : {L}, noverlap : 0..(L - 1), fs_ok : BOOLEAN,
           cut : (-1)..(L \div 2), amp : [1..((L \div 2) + 1) -> 0..MaxMag]] :
            L \in 1..MaxSeg }

WelchStart(in) ==
  [f |-> "_welch_amp2", in |-> in, at |-> "guard", hop |-> 0, nseg |-> 0, s |-> 0,
   segs |-> <<>>, div |-> 0, freq |-> <<>>, mag |-> <<>>, dom |-> -1]

\* ext_spectrum_live.py:23-33  the guards that return empty axes, hop and nseg
WelchGuard ==
  /\ app.f = "_welch_amp2"
  /\ app.at = "guard"
  /\ LET in == app.in
         hop == Hop(in.nperseg, in.noverlap)
         nseg == NSeg(in.n, in.nperseg, hop) IN
     IF in.n < Max(2, in.nperseg) \/ ~in.fs_ok \/ nseg < 1
       THEN app' = [app EXCEPT !.at = "welch_returned"]
       ELSE app' = [app EXCEPT !.at = "loop", !.hop = hop, !.nseg = nseg, !.s = 0]
  /\ AppOnly

\* ext_spectrum_live.py:40-53  one turn of for s in range(nseg): the slice, the
\* break on a short slice, P += S (the start of every slice added is recorded)
WelchSegment ==
  /\ app.f = "_welch_amp2"
  /\ app.at = "loop"
  /\ app.s < app.nseg
  /\ LET i0 == app.s * app.hop IN
     IF SliceSize(app.in.n, i0, app.in.nperseg) # app.in.nperseg
       THEN app' = [app EXCEPT !.at = "average"]
       ELSE app' = [app EXCEPT !.s = app.s + 1, !.segs = Append(app.segs, i0),
                               !.at = IF app.s + 1 < app.nseg THEN "loop" ELSE "average"]
  /\ AppOnly

\* ext_spectrum_live.py:55-63  P /= max(1, nseg); mag = sqrt(P); the fmax mask
WelchAverage ==
  /\ app.f = "_welch_amp2"
  /\ app.at = "average"
  /\ LET bins == Min(app.in.cut, app.in.nperseg \div 2) + 1 IN
     app' = [app EXCEPT !.at = "welch_returned", !.div = Max(1, app.nseg),
                        !.freq = SubSeq(RfftFreq(app.in.nperseg), 1, bins),
                        !.mag = SubSeq(app.in.amp, 1, bins)]
  /\ AppOnly

\* ext_spectrum_live.py:88-104  api_spectrum_live after _welch_amp2 returned:
\* dom = None, or freq_hz[argmax(mag)] when both axes are not empty
LiveDominant ==
  /\ app.f = "_welch_amp2"
  /\ app.at = "welch_returned"
  /\ IF Len(app.freq) # 0 /\ Len(app.mag) # 0
       THEN app' = [app EXCEPT !.at = "live_returned", !.dom = app.freq[ArgMax(app.mag) + 1]]
       ELSE app' = [app EXCEPT !.at = "live_returned"]
  /\ AppOnly

\* SpecWelch: the Welch estimator and the endpoint on every signal and segmentation
InitWelch ==
  /\ InitManagerVars(1)
  /\ \E in \in WelchInputs : app = WelchStart(in)

NextWelch ==
  \/ WelchGuard
  \/ WelchSegment
  \/ WelchAverage
  \/ LiveDominant

SpecWelch == InitWelch /\ [][NextWelch]_vars

\* the number of complete segments of length L with overlap O in n samples
CompleteSegments(n, L, O) == IF n < L THEN 0 ELSE 1 + ((n - L) \div (L - O))

\* the Welch result is that of averaging exactly K complete segments
AveragesSegments(K) ==
  /\ Len(app.segs) = K
  /\ app.div = K
  /\ \A s \in 1..K :
       /\ app.segs[s] = (s - 1) * (app.in.nperseg - app.in.noverlap)
       /\ app.segs[s] + app.in.nperseg <= app.in.n

\* C22 (as claimed): for n samples, segment length L and overlap O < L the Welch
\* estimator averages over exactly the K = 1 + floor((n - L) / (L - O)) complete
\* segments, dividing the accumulated power by K; when no complete segment fits
\* (n < L) it returns empty axes instead of an error.
C22_CompleteSegments ==
  (app.f = "_welch_amp2" /\ app.at = "welch_returned" /\ app.in.fs_ok)
    => IF app.in.n < app.in.nperseg
         THEN Len(app.freq) = 0 /\ Len(app.mag) = 0
         ELSE AveragesSegments(CompleteSegments(app.in.n, app.in.nperseg, app.in.noverlap))

\* C22: for a signal of n >= 2 samples (and a positive sampling rate), segment
\* length L >= 1 and overlap 0 <= O < L the Welch estimator averages over exactly
\* the K = 1 + floor((n - L) / (L - O)) complete segments, dividing by K; for
\* n < max(2, L), that is when no complete segment fits or the signal has fewer
\* than 2 samples, it returns empty axes instead of an error.
C22_SegmentsFromTwoSamples ==
  (app.f = "_welch_amp2" /\ app.at = "welch_returned" /\ app.in.fs_ok)
    => IF app.in.n < Max(2, app.in.nperseg)
         THEN Len(app.freq) = 0 /\ Len(app.mag) = 0 /\ Len(app.segs) = 0
         ELSE AveragesSegments(CompleteSegments(app.in.n, app.in.nperseg, app.in.noverlap))

\* half-overlapping segments of 4 samples in 6 samples: two segments, at 0 and 2
C22_Witness ==
  /\ app.f = "_welch_amp2"
  /\ app.at = "welch_returned"
  /\ app.in.n = 6
  /\ app.in.nperseg = 4
  /\ app.in.noverlap = 2
  /\ app.segs = <<0, 2>>
  /\ app.div = 2

\* C23: the dominant frequency reported by api_spectrum_live is the frequency of
\* the maximum-magnitude bin excluding the DC bin: bin 0 is never reported as
\* dominant, whatever the magnitudes.
C23_LiveDominantSkipsDC ==
  (app.f = "_welch_amp2" /\ app.at = "live_returned" /\ app.dom # -1)
    => /\ app.dom # 0
       /\ \A k \in 2..Len(app.mag) : app.mag[k] <= app.mag[app.dom + 1]

(* --------------- the retry counters of _acquisition_loop --------------- *)
\* loop t takes the step that begins its poll of device d
PollBegins(t, d) ==
  /\ pc[t] = "visit"
  /\ cur[t] = d
  /\ (pc'[t] # "visit" \/ cur'[t] # d \/ retry_count'[t][d] # retry_count[t][d])

\* connect() called by the loop itself (devices.py:225) returns to loop t
LoopConnectReturns(t) == pc[t] = "c_ret" /\ from[t] = "loop" /\ pc'[t] # "c_ret"

\* C24 (as claimed): in every poll cycle in which a device is found
\* disconnected its retry counter is incremented, and connect() is attempted
\* only in the cycle in which the counter reaches 10; in that cycle the counter
\* is reset to 0 whether connect() succeeded or failed.
C24_IncrementEveryCycle ==
  [][\A t \in Threads, d \in devices :
       /\ (PollBegins(t, d) /\ ~connected[d])
            => /\ (pc'[t] = "c_sock" \/ retry_count'[t][d] = retry_count[t][d] + 1)
               /\ (pc'[t] = "c_sock") <=> (retry_count[t][d] + 1 = RetryThreshold)
       /\ (LoopConnectReturns(t) /\ cur[t] = d) => retry_count'[t][d] = 0]_vars

\* C24: in a poll cycle in which a device is found disconnected with its retry
\* counter below 10 the counter is incremented and connect() is not attempted;
\* in a cycle in which it is found disconnected with the counter at 10 (the
\* cycle after the one that brought it to 10) connect() is attempted, the
\* counter is not incremented and is reset to 0 whether connect() succeeded or
\* failed.
C24_ConnectAtTen ==
  [][\A t \in Threads, d \in devices :
       /\ (PollBegins(t, d) /\ ~connected[d])
            => IF retry_count[t][d] = RetryThreshold
                 THEN /\ pc'[t] = "c_sock"
                      /\ from'[t] = "loop"
                      /\ retry_count'[t][d] = retry_count[t][d]
                 ELSE /\ pc'[t] # "c_sock"
                      /\ retry_count'[t][d] = retry_count[t][d] + 1
                      /\ PollEnds(t)
       /\ (LoopConnectReturns(t) /\ cur[t] = d)
            => /\ retry_count[t][d] = RetryThreshold
               /\ retry_count'[t][d] = 0
               /\ PollEnds(t)]_vars

\* a failed connect() of the loop has put the counter of its device back to 0
C24_Witness ==
  \E d \in devices :
    /\ lastPoll[1][d] = "connect_fail"
    /\ ~connected[d]
    /\ retry_count[1][d] = 0
    /\ gap[1][d] = 0
    /\ pc[1] = "sleep"

\* the positions of a loop thread inside read_data() (devices.py:91-126)
ReadPcs == {"rd_check", "recv", "rd_decode", "rd_disc", "rd_lock",
            "app_X", "app_Y", "app_Z", "rd_unlock", "rd_ret"}

\* C25: in every poll cycle in which a device is found connected the loop issues
\* exactly one read_data(): a successful read resets that device's retry counter
\* to 0; a failed read leaves the counter as it was and triggers no connect()
\* for that device in the same cycle.
C25_OneReadPerCycle ==
  [][\A t \in Threads, d \in devices :
       /\ (PollBegins(t, d) /\ connected[d])
            => /\ pc'[t] = "rd_check"
               /\ retry_count'[t][d] = retry_count[t][d]
       /\ (pc[t] \in ReadPcs /\ cur[t] = d /\ pc'[t] # pc[t])
            => /\ pc'[t] # "rd_check"
               /\ (pc'[t] = "c_sock") => (pc[t] = "rd_check" /\ ~connected[d])
               /\ (pc'[t] \in {"visit", "sleep"}) <=> (pc[t] = "rd_ret")
               /\ (pc[t] # "rd_ret") => (cur'[t] = d /\ retry_count'[t][d] = retry_count[t][d])
       /\ (pc[t] = "rd_ret" /\ cur[t] = d /\ pc'[t] # pc[t])
            => /\ PollEnds(t)
               /\ retry_count'[t][d] = IF Truthy(ret[t]) THEN 0 ELSE retry_count[t][d]]_vars

\* a poll that found the device connected has ended after a failed read_data():
\* the device is disconnected and no connect() has been attempted since
C25_Witness ==
  \E d \in devices :
    /\ lastPoll[1][d] = "read_fail"
    /\ pc[1] = "sleep"
    /\ ~connected[d]
    /\ sock[d] = "closed"
    /\ retry_count[1][d] = 0
    /\ last_connection_attempt[d] < now

\* loop t is inside a connect() call (devices.py:60-79)
InConnect(t) == pc[t] \in {"c_sock", "c_connect", "c_ret"}

\* C28: the backoff cannot be bypassed inside the loop: every connect() issued by
\* the loop comes from the disconnected branch with the retry counter at 10, the
\* implicit connect() at the start of read_data() is never triggered by the loop,
\* and each retry counter stays within 0..10 in every reachable state.
C28_BackoffNotBypassed ==
  \A t \in Threads, d \in devices :
    /\ retry_count[t][d] \in 0..RetryThreshold
    /\ (InConnect(t) /\ cur[t] = d)
         => /\ from[t] = "loop"
            /\ retry_count[t][d] = RetryThreshold

\* the three waveforms of a get_multi_channel_waveform result were cut from the
\* same records of device d: all None, or the X, Y and Z values of one run of
\* the records the device has delivered
SameRecords(d, parts) ==
  \/ \A k \in 1..3 : parts[k].none
  \/ /\ \A k \in 1..3 : ~parts[k].none
     /\ \E a \in 0..Len(pushed[d]) :
          \A k \in 1..3 :
            /\ Len(parts[k].data) = Len(parts[1].data)
            /\ parts[k].times = parts[1].times
            /\ a + Len(parts[k].data) <= Len(pushed[d])
            /\ \A i \in 1..Len(parts[k].data) :
                 parts[k].data[i] = pushed[d][a + i][k]

\* C26: get_multi_channel_waveform returns all 3 channels simultaneously: in one
\* result the X, Y and Z waveforms reflect the same buffer state (same number of
\* samples, same acquisition ticks), even when the poll thread appends a sample
\* while the call is in progress.
C26_ChannelsSimultaneous ==
  (result.op = "get_multi_channel_waveform" /\ result.dev \in devices)
    => SameRecords(result.dev, result.parts)

(* ------------------- a device that only sends short reads -------------- *)
\* SpecShort: the acquisition loop over a device whose every recv returns fewer
\* than 12 bytes (0 bytes included)
ShortStep(t) ==
  \/ While(t) \/ Visit(t) \/ Sleep(t)
  \/ ConnectSocket(t) \/ ConnectCall(t) \/ ConnectReturn(t)
  \/ ReadCheck(t) \/ RecvPartial(t) \/ ReadDecode(t) \/ ReadReturn(t)

NextShort ==
  \/ ShortStep(1)
  \/ Tick

SpecShort == InitRunning(1) /\ [][NextShort]_vars

\* C29: short reads alone never lead to a reconnect: a connected device whose
\* every recv returns fewer than 12 bytes (0 bytes included) remains connected in
\* every later state, its buffers never grow, and the loop never calls connect()
\* or disconnect() on it.
C29_ShortReadsKeepConnection ==
  [][\A d \in devices :
       connected[d]
         => /\ connected'[d]
            /\ sock'[d] = "open"
            /\ channels'[d] = channels[d]
            /\ last_connection_attempt'[d] = last_connection_attempt[d]
            /\ \A t \in Threads :
                 cur[t] = d => pc'[t] \notin {"c_sock", "c_connect", "rd_disc",
                                              "rd_lock", "app_X", "app_Y", "app_Z"}]_vars

\* a poll of a connected device has ended after a recv of fewer than 12 bytes:
\* the device is still connected and its buffers are empty
C29_Witness ==
  \E d \in devices :
    /\ lastPoll[1][d] = "read_partial"
    /\ pc[1] = "sleep"
    /\ connected[d]
    /\ sock[d] = "open"
    /\ \A ch \in Channels : channels[d][ch] = <<>>
    /\ last_connection_attempt[d] < now

\* the three channel buffers of device d hold the same number of samples
EqualLengths(d) ==
  /\ Len(channels[d]["X"]) = Len(channels[d]["Y"])
  /\ Len(channels[d]["Y"]) = Len(channels[d]["Z"])

\* C30: in every state a thread can observe on taking a device's lock (the lock
\* is free for a get_buffer(), or read_data() has just taken it or is about to
\* release it) the X, Y and Z buffers of the device have the same length, after
\* any sequence of successful, partial and failed reads, with consumers calling
\* get_buffer() and get_status() at any time.
C30_EqualLengthsUnderLock ==
  \A d \in devices :
    /\ lock[d] = NoThread => EqualLengths(d)
    /\ \A t \in Threads :
         (lock[d] = t /\ pc[t] \in {"app_X", "rd_unlock"}) => EqualLengths(d)

\* a get_buffer() has taken its snapshot after a complete read followed by a
\* failed one; the three buffers hold one sample each
C30_Witness ==
  \E d \in devices :
    /\ lock[d] = NoThread
    /\ lastPoll[1][d] = "read_fail"
    /\ result.op = "get_buffer"
    /\ result.dev = d
    /\ Len(result.val) = 1
    /\ \A ch \in Channels : Len(channels[d][ch]) = 1

(* ------ src/web/api/global_seismic.py: get_recent_earthquakes ---------- *)
\* minutes of the clock of the earthquake cache
MaxQuakeClock == 6
\* global_seismic.py:28  self.cache_ttl = 300 seconds, in minutes
CacheTtlMinutes == 5

\* the events USGS holds, oldest first (orderby time-asc): magnitude and age in days
Catalogue ==
  << [id |-> 1, mag |-> 5, age |-> 3],
     [id |-> 2, mag |-> 4, age |-> 0],
     [id |-> 3, mag |-> 6, age |-> 0] >>

\* the arguments of the calls: min_magnitude, and time_period with a value
\* outside time_map
MinMagnitudes == {4, 5, 6}
TimePeriods == {"1day", "7days", "30days", "1hour"}

\* global_seismic.py:96-101  time_map.get(time_period, 1)
DaysBack(time_period) ==
  IF time_period = "7days" THEN 7 ELSE IF time_period = "30days" THEN 30 ELSE 1

\* global_seismic.py:102-129  what the USGS query returns for starttime and
\* minmagnitude, formatted event by event
FetchFromUsgs(min_magnitude, time_period) ==
  LET Wanted(eq) == eq.mag >= min_magnitude /\ eq.age < DaysBack(time_period)
  IN SelectSeq(Catalogue, Wanted)

\* global_seismic.py:166-172  _filter_earthquakes: the magnitude test only
FilterEarthquakes(earthquakes, min_magnitude) ==
  LET Strong(eq) == eq.mag >= min_magnitude
  IN SelectSeq(earthquakes, Strong)

\* global_seismic.py:174-179  _is_cache_valid
IsCacheValid(cache_timestamp, clock) ==
  IF cache_timestamp = None THEN FALSE ELSE clock - cache_timestamp < CacheTtlMinutes

\* global_seismic.py:24-29  GlobalSeismicManager.__init__
QuakeStart ==
  [f |-> "get_recent_earthquakes", at |-> "idle", min_magnitude |-> 0, time_period |-> "-",
   cache |-> <<>>, cache_timestamp |-> None, cache_ok |-> FALSE, clock |-> 0,
   earthquakes |-> <<>>, val |-> <<>>, hit |-> FALSE]

\* global_seismic.py:37-38  a caller enters get_recent_earthquakes
QuakeCall(min_magnitude, time_period) ==
  /\ app.f = "get_recent_earthquakes"
  /\ app.at \in {"idle", "returned"}
  /\ app' = [app EXCEPT !.at = "check", !.min_magnitude = min_magnitude,
                        !.time_period = time_period]
  /\ AppOnly

\* global_seismic.py:51-52  a valid cache is filtered and returned
QuakeCheck ==
  /\ app.f = "get_recent_earthquakes"
  /\ app.at = "check"
  /\ IF IsCacheValid(app.cache_timestamp, app.clock)
       THEN app' = [app EXCEPT !.at = "returned", !.hit = TRUE,
                               !.val = FilterEarthquakes(app.cache, app.min_magnitude)]
       ELSE app' = [app EXCEPT !.at = "fetch"]
  /\ AppOnly

\* global_seismic.py:55, 92-133  _fetch_from_usgs: the events, or [] when the
\* request fails
QuakeFetch ==
  /\ app.f = "get_recent_earthquakes"
  /\ app.at = "fetch"
  /\ \E ok \in BOOLEAN :
       app' = [app EXCEPT !.at = "store", !.cache_ok = ok,
                          !.earthquakes = IF ok THEN FetchFromUsgs(app.min_magnitude, app.time_period)
                                          ELSE <<>>]
  /\ AppOnly

\* global_seismic.py:57-61  the result replaces the cache and is returned
QuakeStore ==
  /\ app.f = "get_recent_earthquakes"
  /\ app.at = "store"
  /\ app' = [app EXCEPT !.at = "returned", !.hit = FALSE, !.val = app.earthquakes,
                        !.cache = app.earthquakes, !.cache_timestamp = app.clock]
  /\ AppOnly

\* datetime.utcnow() advances by a minute
QuakeTick ==
  /\ app.f = "get_recent_earthquakes"
  /\ app.clock < MaxQuakeClock
  /\ app' = [app EXCEPT !.clock = app.clock + 1]
  /\ AppOnly

\* SpecQuakes: calls of get_recent_earthquakes with every argument, one after
\* the other, while the clock advances
InitQuakes ==
  /\ InitManagerVars(1)
  /\ app = QuakeStart

NextQuakes ==
  \/ \E m \in MinMagnitudes, p \in TimePeriods : QuakeCall(m, p)
  \/ QuakeCheck
  \/ QuakeFetch
  \/ QuakeStore
  \/ QuakeTick

SpecQuakes == InitQuakes /\ [][NextQuakes]_vars

\* C27: get_recent_earthquakes(min_magnitude, time_period) returns the events of
\* the requested time period with magnitude >= min_magnitude on a cache hit as
\* on a fresh fetch: a call served from the 5-minute cache (filled by a fetch
\* that succeeded) returns the same list that a fresh fetch with the same
\* arguments would return.
C27_CacheHitEqualsFresh ==
  (app.f = "get_recent_earthquakes" /\ app.at = "returned" /\ app.hit /\ app.cache_ok)
    => app.val = FetchFromUsgs(app.min_magnitude, app.time_period)

====
